---- MODULE Spec2Model ----
(***************************************************************************)
(* Notebook steps of the query builder (notebook/lib/steps.ts).            *)
(*                                                                         *)
(* A dataset query is the sequence of its stages, innermost first: stage 1 *)
(* reads the source table, stage i+1 reads stage i (its "source-query").   *)
(* A StructuredQuery is a view of the LAST stage of its dataset query      *)
(* together with the database of its question; query.queries() are the     *)
(* views of every prefix.  Clause lists are abstracted to "none" (empty),  *)
(* "ok" (only valid clauses) and "bad" (holds a clause its clean drops).   *)
(* A join is "valid", has "gaps" (being edited), is "fixable" (its clean   *)
(* is valid) or "broken" (its clean is still invalid).                     *)
(***************************************************************************)
EXTENDS Integers, Sequences, FiniteSets, TLC

\* ------------------------------------------------------------------ bounds
\* stages of an input question (nest may add one more)
MaxStages == 2
\* joins of one stage
MaxJoins == 2
\* clauses of an input question, over all its stages
MaxClauses == 3
\* the same, for the questions step.update runs on
MaxUpdateClauses == 2
\* ids in the force-open set
MaxOpen == 1

\* --------------------------------------------------------------- constants
NoItem == -1
LastStage == -1

ClauseStates == {"none", "ok", "bad"}
JoinStates == {"valid", "gaps", "fixable", "broken"}
Features == {"join", "expressions", "nested-queries"}
NoDatabase == {"null"}
NullQuery == [database |-> NoDatabase, stages |-> <<>>]

EmptyStage ==
  [table |-> FALSE, joins |-> <<>>, expressions |-> "none", filters |-> "none",
   aggregations |-> "none", breakouts |-> "none", sorts |-> "none", limit |-> FALSE]

\* ------------------------------------------- StructuredQuery (metabase-lib)
Top(query) == query.stages[Len(query.stages)]

SetTop(query, stage) ==
  [query EXCEPT !.stages = [query.stages EXCEPT ![Len(query.stages)] = stage]]

database(query) == query.database

hasFeature(db, feature) == feature \in db

supportsExpressions(db) == hasFeature(db, "expressions")

sourceQuery(query) == Len(query.stages) > 1

hasData(query) == sourceQuery(query) \/ Top(query).table

joins(query) == Top(query).joins

removeJoin(query, index) ==
  LET js == joins(query)
  IN  IF index >= 0 /\ index < Len(js)
      THEN SetTop(query, [Top(query) EXCEPT !.joins =
                            SubSeq(js, 1, index) \o SubSeq(js, index + 2, Len(js))])
      ELSE query

updateJoin(query, index, join) ==
  SetTop(query, [Top(query) EXCEPT !.joins = [joins(query) EXCEPT ![index + 1] = join]])

JoinIsValid(join) == join = "valid"

JoinHasGaps(join) == join = "gaps"

JoinClean(join) == IF join = "fixable" THEN "valid" ELSE join

cleanClause(c) == IF c = "bad" THEN "none" ELSE c

hasExpressions(query) == Top(query).expressions # "none"
clearExpressions(query) == SetTop(query, [Top(query) EXCEPT !.expressions = "none"])
cleanExpressions(query) == SetTop(query, [Top(query) EXCEPT !.expressions = cleanClause(@)])

hasFilters(query) == Top(query).filters # "none"
clearFilters(query) == SetTop(query, [Top(query) EXCEPT !.filters = "none"])
cleanFilters(query) == SetTop(query, [Top(query) EXCEPT !.filters = cleanClause(@)])

hasAggregations(query) == Top(query).aggregations # "none"
clearAggregations(query) == SetTop(query, [Top(query) EXCEPT !.aggregations = "none"])
cleanAggregations(query) == SetTop(query, [Top(query) EXCEPT !.aggregations = cleanClause(@)])

hasBreakouts(query) == Top(query).breakouts # "none"
clearBreakouts(query) == SetTop(query, [Top(query) EXCEPT !.breakouts = "none"])
cleanBreakouts(query) == SetTop(query, [Top(query) EXCEPT !.breakouts = cleanClause(@)])

hasSorts(query) == Top(query).sorts # "none"
clearSort(query) == SetTop(query, [Top(query) EXCEPT !.sorts = "none"])
cleanSorts(query) == SetTop(query, [Top(query) EXCEPT !.sorts = cleanClause(@)])

StageHasAnyClauses(stage) ==
  \/ stage.joins # <<>>
  \/ stage.expressions # "none"
  \/ stage.filters # "none"
  \/ stage.aggregations # "none"
  \/ stage.breakouts # "none"
  \/ stage.sorts # "none"
  \/ stage.limit

hasAnyClauses(query) == StageHasAnyClauses(Top(query))

\* the views of every stage, innermost first
queries(query) ==
  [i \in 1..Len(query.stages) |->
     [database |-> query.database, stages |-> SubSeq(query.stages, 1, i)]]

\* the dataset query this view holds
datasetQuery(query) == query.stages

setDatasetQuery(query, dq) == [database |-> query.database, stages |-> dq]

setSourceQuery(query, source) ==
  [database |-> query.database, stages |-> Append(source, Top(query))]

nest(query) == [query EXCEPT !.stages = Append(@, EmptyStage)]

RECURSIVE StripEmpty(_)
StripEmpty(stages) ==
  IF Len(stages) <= 1 THEN stages
  ELSE LET inner == StripEmpty(SubSeq(stages, 1, Len(stages) - 1))
           last == stages[Len(stages)]
       IN  IF StageHasAnyClauses(last) THEN Append(inner, last) ELSE inner

cleanNesting(query) == [query EXCEPT !.stages = StripEmpty(@)]

\* ------------------------------------------------ Lib (metabase-lib, MLv2)
getMLv2Query(question) == [db |-> question.database, mlv2 |-> question.stages]

\* the stage of an MLv2 query a stage index addresses; -1 is the last stage
LibStage(query, stageIndex) ==
  IF stageIndex = LastStage THEN Len(query.mlv2) ELSE stageIndex + 1

LibStageExists(query, stageIndex) == LibStage(query, stageIndex) \in 1..Len(query.mlv2)

LibHasLimit(query, stageIndex) ==
  LibStageExists(query, stageIndex) /\ query.mlv2[LibStage(query, stageIndex)].limit

LibLimitNull(query, stageIndex) ==
  IF LibStageExists(query, stageIndex)
  THEN [query EXCEPT !.mlv2[LibStage(query, stageIndex)].limit = FALSE]
  ELSE query

toLegacyQuery(query) == query.mlv2

\* ------------------------------------------------------------ Step catalog
MLV2_STEPS == {"limit", "sort"}

\* mutant: the last-stage test is dropped
getMLv2StageIndex_AnyStage(index, stepType, isLastStage) ==
  IF stepType \in MLV2_STEPS THEN LastStage ELSE index

\* mutant: every step keeps the literal index of its stage
getMLv2StageIndex_Literal(index, stepType, isLastStage) == index

getMLv2StageIndex(index, stepType, isLastStage) ==
  LET isMLv2Step == stepType \in MLV2_STEPS
  IN  IF isMLv2Step /\ isLastStage THEN LastStage ELSE index

STEPS == <<"data", "join", "expression", "filter", "summarize", "sort", "limit">>

dataValid(query, itemIndex, topLevelQuery, stageIndex) == ~sourceQuery(query)
dataActive(query, itemIndex, topLevelQuery, stageIndex) == TRUE
dataClean(query, itemIndex, topLevelQuery, stageIndex) == query

joinValid(query, itemIndex, topLevelQuery, stageIndex) ==
  /\ hasData(query)
  /\ database(query) # NoDatabase
  /\ hasFeature(database(query), "join")
joinSubSteps(query) == Len(joins(query))
joinActive(query, index, topLevelQuery, stageIndex) ==
  index # NoItem /\ Len(joins(query)) > index
joinRevert(query, index, topLevelQuery, stageIndex) == removeJoin(query, index)
joinClean(query, index, topLevelQuery, stageIndex) ==
  LET present == index # NoItem /\ index >= 0 /\ index < Len(joins(query))
  IN  IF ~present THEN query
      ELSE LET join == joins(query)[index + 1]
           IN  IF JoinIsValid(join) \/ JoinHasGaps(join) THEN query
               ELSE LET cleanJoin == JoinClean(join)
                    IN  IF JoinIsValid(cleanJoin)
                        THEN updateJoin(query, index, cleanJoin)
                        ELSE removeJoin(query, index)

expressionValid(query, itemIndex, topLevelQuery, stageIndex) ==
  /\ hasData(query)
  /\ database(query) # NoDatabase
  /\ supportsExpressions(database(query))
expressionActive(query, itemIndex, topLevelQuery, stageIndex) == hasExpressions(query)
expressionRevert(query, itemIndex, topLevelQuery, stageIndex) == clearExpressions(query)
expressionClean(query, itemIndex, topLevelQuery, stageIndex) == cleanExpressions(query)

filterValid(query, itemIndex, topLevelQuery, stageIndex) == hasData(query)
filterActive(query, itemIndex, topLevelQuery, stageIndex) == hasFilters(query)
filterRevert(query, itemIndex, topLevelQuery, stageIndex) == clearFilters(query)
filterClean(query, itemIndex, topLevelQuery, stageIndex) == cleanFilters(query)

summarizeValid(query, itemIndex, topLevelQuery, stageIndex) == hasData(query)
summarizeActive(query, itemIndex, topLevelQuery, stageIndex) ==
  hasAggregations(query) \/ hasBreakouts(query)
summarizeRevert(query, itemIndex, topLevelQuery, stageIndex) ==
  IF hasAggregations(query) \/ hasBreakouts(query)
  THEN clearAggregations(clearBreakouts(query))
  ELSE query
summarizeClean(query, itemIndex, topLevelQuery, stageIndex) ==
  cleanAggregations(cleanBreakouts(query))

sortValid(query, itemIndex, topLevelQuery, stageIndex) ==
  /\ hasData(query)
  /\ (~hasAggregations(query) \/ hasBreakouts(query))
  /\ (~sourceQuery(query) \/ hasAnyClauses(query))
sortActive(query, itemIndex, topLevelQuery, stageIndex) == hasSorts(query)
sortRevert(query, itemIndex, topLevelQuery, stageIndex) == clearSort(query)
sortClean(query, itemIndex, topLevelQuery, stageIndex) == cleanSorts(query)

limitValid(query, itemIndex, topLevelQuery, stageIndex) ==
  /\ hasData(query)
  /\ (~hasAggregations(query) \/ hasBreakouts(query))
  /\ (~sourceQuery(query) \/ hasAnyClauses(query))
limitActive(legacyQuery, itemIndex, query, stageIndex) == LibHasLimit(query, stageIndex)
limitRevert(legacyQuery, itemIndex, query, stageIndex) ==
  LET reverted == LibLimitNull(query, stageIndex)
      revertedLegacyQuery == toLegacyQuery(reverted)
      revertedStructuredQuery == setDatasetQuery(legacyQuery, revertedLegacyQuery)
      stagedQueries == queries(revertedStructuredQuery)
      safeStageIndex == IF stageIndex = LastStage THEN Len(stagedQueries) - 1 ELSE stageIndex
  IN  IF safeStageIndex + 1 \in 1..Len(stagedQueries)
      THEN stagedQueries[safeStageIndex + 1]
      ELSE NullQuery   \* an index past the array reads undefined
limitClean(query, itemIndex, topLevelQuery, stageIndex) == query

\* dispatch on the catalog entry
StepValid(type, query, itemIndex, topLevelQuery, stageIndex) ==
  CASE type = "data" -> dataValid(query, itemIndex, topLevelQuery, stageIndex)
    [] type = "join" -> joinValid(query, itemIndex, topLevelQuery, stageIndex)
    [] type = "expression" -> expressionValid(query, itemIndex, topLevelQuery, stageIndex)
    [] type = "filter" -> filterValid(query, itemIndex, topLevelQuery, stageIndex)
    [] type = "summarize" -> summarizeValid(query, itemIndex, topLevelQuery, stageIndex)
    [] type = "sort" -> sortValid(query, itemIndex, topLevelQuery, stageIndex)
    [] type = "limit" -> limitValid(query, itemIndex, topLevelQuery, stageIndex)

StepActive(type, query, itemIndex, topLevelQuery, stageIndex) ==
  CASE type = "data" -> dataActive(query, itemIndex, topLevelQuery, stageIndex)
    [] type = "join" -> joinActive(query, itemIndex, topLevelQuery, stageIndex)
    [] type = "expression" -> expressionActive(query, itemIndex, topLevelQuery, stageIndex)
    [] type = "filter" -> filterActive(query, itemIndex, topLevelQuery, stageIndex)
    [] type = "summarize" -> summarizeActive(query, itemIndex, topLevelQuery, stageIndex)
    [] type = "sort" -> sortActive(query, itemIndex, topLevelQuery, stageIndex)
    [] type = "limit" -> limitActive(query, itemIndex, topLevelQuery, stageIndex)

StepHasRevert(type) == type # "data"

StepRevert(type, query, itemIndex, topLevelQuery, stageIndex) ==
  CASE type = "join" -> joinRevert(query, itemIndex, topLevelQuery, stageIndex)
    [] type = "expression" -> expressionRevert(query, itemIndex, topLevelQuery, stageIndex)
    [] type = "filter" -> filterRevert(query, itemIndex, topLevelQuery, stageIndex)
    [] type = "summarize" -> summarizeRevert(query, itemIndex, topLevelQuery, stageIndex)
    [] type = "sort" -> sortRevert(query, itemIndex, topLevelQuery, stageIndex)
    [] type = "limit" -> limitRevert(query, itemIndex, topLevelQuery, stageIndex)

StepClean(type, query, itemIndex, topLevelQuery, stageIndex) ==
  CASE type = "data" -> dataClean(query, itemIndex, topLevelQuery, stageIndex)
    [] type = "join" -> joinClean(query, itemIndex, topLevelQuery, stageIndex)
    [] type = "expression" -> expressionClean(query, itemIndex, topLevelQuery, stageIndex)
    [] type = "filter" -> filterClean(query, itemIndex, topLevelQuery, stageIndex)
    [] type = "summarize" -> summarizeClean(query, itemIndex, topLevelQuery, stageIndex)
    [] type = "sort" -> sortClean(query, itemIndex, topLevelQuery, stageIndex)
    [] type = "limit" -> limitClean(query, itemIndex, topLevelQuery, stageIndex)

StepHasSubSteps(type) == type = "join"

StepSubSteps(type, query) == joinSubSteps(query)

\* ------------------------------------------------------- Stage step deriver
\* `${_stageIndex}:${step.type}` + (isValidItemIndex ? `:${itemIndex}` : "")
\* mutant: the item index is never appended
getId_NoSuffix(_stageIndex, type, itemIndex) == <<_stageIndex, type>>

getId(_stageIndex, type, itemIndex) ==
  LET isValidItemIndex == itemIndex # NoItem /\ itemIndex > 0
  IN  IF isValidItemIndex THEN <<_stageIndex, type, itemIndex>> ELSE <<_stageIndex, type>>

\* mutant: a forced-open id shows the step whether or not it is valid
getStep_OpenOverridesValid(type, itemIndex, topLevelQuery, stageQuery, _stageIndex, isLastStage, openSteps) ==
  LET id == getId(_stageIndex, type, itemIndex)
      stageIndex == getMLv2StageIndex(_stageIndex, type, isLastStage)
      valid == StepValid(type, stageQuery, itemIndex, topLevelQuery, stageIndex)
      active == StepActive(type, stageQuery, itemIndex, topLevelQuery, stageIndex)
  IN  [id |-> id, type |-> type, stageIndex |-> stageIndex, itemIndex |-> itemIndex,
       topLevelQuery |-> topLevelQuery, query |-> stageQuery,
       valid |-> valid, active |-> active,
       visible |-> (valid /\ active) \/ id \in openSteps,
       actions |-> <<>>, previewQuery |-> NullQuery, next |-> 0, previous |-> 0]

\* mutant: a forced-open step counts as active
getStep_OpenMakesActive(type, itemIndex, topLevelQuery, stageQuery, _stageIndex, isLastStage, openSteps) ==
  LET id == getId(_stageIndex, type, itemIndex)
      stageIndex == getMLv2StageIndex(_stageIndex, type, isLastStage)
      valid == StepValid(type, stageQuery, itemIndex, topLevelQuery, stageIndex)
      active == \/ StepActive(type, stageQuery, itemIndex, topLevelQuery, stageIndex)
                \/ id \in openSteps
  IN  [id |-> id, type |-> type, stageIndex |-> stageIndex, itemIndex |-> itemIndex,
       topLevelQuery |-> topLevelQuery, query |-> stageQuery,
       valid |-> valid, active |-> active,
       visible |-> valid /\ active,
       actions |-> <<>>, previewQuery |-> NullQuery, next |-> 0, previous |-> 0]

\* mutant: every valid step is shown, active or not
getStep_VisibleWhenValid(type, itemIndex, topLevelQuery, stageQuery, _stageIndex, isLastStage, openSteps) ==
  LET id == getId(_stageIndex, type, itemIndex)
      stageIndex == getMLv2StageIndex(_stageIndex, type, isLastStage)
      valid == StepValid(type, stageQuery, itemIndex, topLevelQuery, stageIndex)
      active == StepActive(type, stageQuery, itemIndex, topLevelQuery, stageIndex)
  IN  [id |-> id, type |-> type, stageIndex |-> stageIndex, itemIndex |-> itemIndex,
       topLevelQuery |-> topLevelQuery, query |-> stageQuery,
       valid |-> valid, active |-> active,
       visible |-> valid,
       actions |-> <<>>, previewQuery |-> NullQuery, next |-> 0, previous |-> 0]

getStep(type, itemIndex, topLevelQuery, stageQuery, _stageIndex, isLastStage, openSteps) ==
  LET id == getId(_stageIndex, type, itemIndex)
      stageIndex == getMLv2StageIndex(_stageIndex, type, isLastStage)
  IN  [id |-> id,
       type |-> type,
       stageIndex |-> stageIndex,
       itemIndex |-> itemIndex,
       topLevelQuery |-> topLevelQuery,
       query |-> stageQuery,
       valid |-> StepValid(type, stageQuery, itemIndex, topLevelQuery, stageIndex),
       active |-> StepActive(type, stageQuery, itemIndex, topLevelQuery, stageIndex),
       visible |-> /\ StepValid(type, stageQuery, itemIndex, topLevelQuery, stageIndex)
                   /\ \/ StepActive(type, stageQuery, itemIndex, topLevelQuery, stageIndex)
                      \/ id \in openSteps,
       actions |-> <<>>,
       previewQuery |-> NullQuery,
       next |-> 0,
       previous |-> 0]

\* step.revert(query), step.clean(query): the closures of one instance
revert(step, query) ==
  StepRevert(step.type, query, step.itemIndex, step.topLevelQuery, step.stageIndex)

clean(step, query) ==
  StepClean(step.type, query, step.itemIndex, step.topLevelQuery, step.stageIndex)

\* mutant: no placeholder after the items
StepInstances_NoPlaceholder(type, topLevelQuery, stageQuery, _stageIndex, isLastStage, openSteps) ==
  IF StepHasSubSteps(type)
  THEN [i \in 1..StepSubSteps(type, stageQuery) |->
          getStep(type, i - 1, topLevelQuery, stageQuery, _stageIndex, isLastStage, openSteps)]
  ELSE <<getStep(type, NoItem, topLevelQuery, stageQuery, _stageIndex, isLastStage, openSteps)>>

\* the instances of one catalog entry: one per item plus the placeholder
StepInstances(type, topLevelQuery, stageQuery, _stageIndex, isLastStage, openSteps) ==
  IF StepHasSubSteps(type)
  THEN [i \in 1..(StepSubSteps(type, stageQuery) + 1) |->
          getStep(type, i - 1, topLevelQuery, stageQuery, _stageIndex, isLastStage, openSteps)]
  ELSE <<getStep(type, NoItem, topLevelQuery, stageQuery, _stageIndex, isLastStage, openSteps)>>

RECURSIVE Flatten(_, _, _, _, _, _)
Flatten(n, topLevelQuery, stageQuery, _stageIndex, isLastStage, openSteps) ==
  IF n = 0 THEN <<>>
  ELSE Flatten(n - 1, topLevelQuery, stageQuery, _stageIndex, isLastStage, openSteps)
       \o StepInstances(STEPS[n], topLevelQuery, stageQuery, _stageIndex, isLastStage, openSteps)

\* every instance of a stage, before the hidden ones are dropped
RawSteps(topLevelQuery, stageQuery, _stageIndex, isLastStage, openSteps) ==
  Flatten(Len(STEPS), topLevelQuery, stageQuery, _stageIndex, isLastStage, openSteps)

\* mutant: the preview is set on every visible step, active or not
WalkStep_PreviewAlways(step, acc) ==
  LET shown == [step EXCEPT !.previewQuery = acc.previewQuery, !.actions = acc.actions]
  IN  [steps |-> IF step.visible THEN <<shown>> \o acc.steps ELSE acc.steps,
       actions |-> IF step.visible THEN <<>>
                   ELSE IF step.valid
                        THEN <<[type |-> step.type, action |-> step.id]>> \o acc.actions
                        ELSE acc.actions,
       previewQuery |-> IF StepHasRevert(step.type) /\ acc.previewQuery # NullQuery
                        THEN revert(step, acc.previewQuery)
                        ELSE acc.previewQuery]

\* mutant: the kept steps are collected in walk order, the last one first
WalkStep_KeepReversed(step, acc) ==
  LET shown == [step EXCEPT !.previewQuery = IF step.active THEN acc.previewQuery ELSE NullQuery,
                            !.actions = acc.actions]
  IN  [steps |-> IF step.visible THEN acc.steps \o <<shown>> ELSE acc.steps,
       actions |-> IF step.visible THEN <<>>
                   ELSE IF step.valid
                        THEN <<[type |-> step.type, action |-> step.id]>> \o acc.actions
                        ELSE acc.actions,
       previewQuery |-> IF StepHasRevert(step.type) /\ acc.previewQuery # NullQuery
                        THEN revert(step, acc.previewQuery)
                        ELSE acc.previewQuery]

\* mutant: a hidden step's action is pushed to the end of the accumulator
WalkStep_PushAction(step, acc) ==
  LET shown == [step EXCEPT !.previewQuery = IF step.active THEN acc.previewQuery ELSE NullQuery,
                            !.actions = acc.actions]
  IN  [steps |-> IF step.visible THEN <<shown>> \o acc.steps ELSE acc.steps,
       actions |-> IF step.visible THEN <<>>
                   ELSE IF step.valid
                        THEN acc.actions \o <<[type |-> step.type, action |-> step.id]>>
                        ELSE acc.actions,
       previewQuery |-> IF StepHasRevert(step.type) /\ acc.previewQuery # NullQuery
                        THEN revert(step, acc.previewQuery)
                        ELSE acc.previewQuery]

\* one iteration of the reverse loop over the instances
WalkStep(step, acc) ==
  LET shown == [step EXCEPT !.previewQuery = IF step.active THEN acc.previewQuery ELSE NullQuery,
                            !.actions = acc.actions]
  IN  [steps |-> IF step.visible THEN <<shown>> \o acc.steps ELSE acc.steps,
       actions |-> IF step.visible THEN <<>>
                   ELSE IF step.valid
                        THEN <<[type |-> step.type, action |-> step.id]>> \o acc.actions
                        ELSE acc.actions,
       previewQuery |-> IF StepHasRevert(step.type) /\ acc.previewQuery # NullQuery
                        THEN revert(step, acc.previewQuery)
                        ELSE acc.previewQuery]

RECURSIVE Walk(_, _, _)
Walk(steps, i, acc) ==
  IF i = 0 THEN acc ELSE Walk(steps, i - 1, WalkStep(steps[i], acc))

\* mutant: the actions left over at the head of the stage are not returned
getStageSteps_DropLeftOver(topLevelQuery, stageQuery, _stageIndex, isLastStage, openSteps) ==
  LET steps == RawSteps(topLevelQuery, stageQuery, _stageIndex, isLastStage, openSteps)
      done == Walk(steps, Len(steps),
                   [steps |-> <<>>, actions |-> <<>>, previewQuery |-> stageQuery])
  IN  [steps |-> done.steps, actions |-> <<>>]

getStageSteps(topLevelQuery, stageQuery, _stageIndex, isLastStage, openSteps) ==
  LET steps == RawSteps(topLevelQuery, stageQuery, _stageIndex, isLastStage, openSteps)
      done == Walk(steps, Len(steps),
                   [steps |-> <<>>, actions |-> <<>>, previewQuery |-> stageQuery])
  IN  [steps |-> done.steps, actions |-> done.actions]

\* --------------------------------------------------- Multi-stage orchestrator
\* mutant: the nested stage is appended before the empty stages are stripped
NormalizedQuery_NestBeforeStrip(question) ==
  LET query == [database |-> question.database, stages |-> question.stages]
      allowsNesting == question.database # NoDatabase
                       /\ hasFeature(question.database, "nested-queries")
  IN  cleanNesting(IF allowsNesting /\ hasBreakouts(query) THEN nest(query) ELSE query)

\* the query whose stages are derived: cleanNesting, then nest when allowed
NormalizedQuery(question) ==
  LET query == [database |-> question.database, stages |-> question.stages]
      allowsNesting == question.database # NoDatabase
                       /\ hasFeature(question.database, "nested-queries")
      stripped == cleanNesting(query)
  IN  IF allowsNesting /\ hasBreakouts(stripped) THEN nest(stripped) ELSE stripped

RECURSIVE StageLoop(_, _, _, _, _)
StageLoop(topLevelQuery, stagedQueries, i, openSteps, allSteps) ==
  IF i > Len(stagedQueries) THEN allSteps
  ELSE LET stageIndex == i - 1
           isLastStage == stageIndex = Len(stagedQueries) - 1
           r == getStageSteps(topLevelQuery, stagedQueries[i], stageIndex, isLastStage, openSteps)
           bridged == IF Len(allSteps) > 0
                      THEN [allSteps EXCEPT ![Len(allSteps)].actions = @ \o r.actions]
                      ELSE allSteps
       IN  StageLoop(topLevelQuery, stagedQueries, i + 1, openSteps, bridged \o r.steps)

\* links kept inside one stage: a step at a stage boundary has no neighbour
LinkSteps_WithinStage(allSteps) ==
  [index \in 1..Len(allSteps) |->
     [allSteps[index] EXCEPT
        !.previous = IF index > 1 /\ allSteps[index - 1].id[1] = allSteps[index].id[1]
                     THEN index - 1 ELSE 0,
        !.next = IF index + 1 <= Len(allSteps) /\ allSteps[index + 1].id[1] = allSteps[index].id[1]
                 THEN index + 1 ELSE 0]]

LinkSteps(allSteps) ==
  [index \in 1..Len(allSteps) |->
     [allSteps[index] EXCEPT !.previous = index - 1,
                             !.next = IF index + 1 <= Len(allSteps) THEN index + 1 ELSE 0]]

\* the derivation without the isStructured test
getQuestionSteps_AnyQuestion(question, openSteps) ==
  LET topLevelQuery == getMLv2Query(question)
      stagedQueries == queries(NormalizedQuery(question))
  IN  LinkSteps(StageLoop(topLevelQuery, stagedQueries, 1, openSteps, <<>>))

getQuestionSteps(question, openSteps) ==
  IF question.structured
  THEN LET topLevelQuery == getMLv2Query(question)
           stagedQueries == queries(NormalizedQuery(question))
       IN  LinkSteps(StageLoop(topLevelQuery, stagedQueries, 1, openSteps, <<>>))
  ELSE <<>>

\* ------------------------------------------------------------- step.update
\* the forward walk over current.next, without the final cleanNesting
\* the test that decides whether the walk has entered the next stage
HandOff(allSteps, nxt) ==
  LET current == allSteps[nxt]
  IN  /\ current.previous # 0
      /\ allSteps[current.previous].stageIndex < current.stageIndex

RECURSIVE Cascade(_, _, _)
Cascade(allSteps, pos, newQuery) ==
  LET nxt == allSteps[pos].next
  IN  IF nxt = 0 THEN newQuery
      ELSE LET current == allSteps[nxt]
               base == IF HandOff(allSteps, nxt)
                       THEN setSourceQuery(current.query, datasetQuery(newQuery))
                       ELSE newQuery
           IN  Cascade(allSteps, nxt, clean(current, base))

\* the positions whose clean the walk from pos applies, in the order applied
RECURSIVE Cleaned(_, _)
Cleaned(allSteps, pos) ==
  LET nxt == allSteps[pos].next
  IN  IF nxt = 0 THEN <<>> ELSE <<nxt>> \o Cleaned(allSteps, nxt)

\* the positions at which that walk re-points the source (setSourceQuery), each
\* just before the clean of the same position
HandOffs(allSteps, pos) ==
  LET cleaned == Cleaned(allSteps, pos)
  IN  SelectSeq(cleaned, LAMBDA n : HandOff(allSteps, n))

update(allSteps, pos, dq) ==
  cleanNesting(Cascade(allSteps, pos, setDatasetQuery(allSteps[pos].query, dq)))

\* ------------------------------------------------------------------ inputs
\* no database loaded, one without features, one that cannot nest, one with all
Databases == {NoDatabase, {}, {"join", "expressions"}, Features}

JoinSeqs(joinStates) == UNION {[1..n -> joinStates] : n \in 0..MaxJoins}

\* shape: the clause and join states the stages are drawn from
Stages(shape) ==
  [table : BOOLEAN, joins : JoinSeqs(shape.joins), expressions : shape.clauses,
   filters : shape.clauses, aggregations : shape.clauses, breakouts : shape.clauses,
   sorts : shape.clauses, limit : BOOLEAN]

\* every clause resolves: what the derivation reads of a query
Resolved == [clauses |-> {"none", "ok"}, joins |-> {"valid"}]

\* clauses and joins in every state: what the clean of a step reads
Unresolved == [clauses |-> ClauseStates, joins |-> JoinStates]

Flag(b) == IF b THEN 1 ELSE 0

\* the number of clauses of a stage
Weight(stage) ==
  Len(stage.joins) + Flag(stage.expressions # "none") + Flag(stage.filters # "none")
  + Flag(stage.aggregations # "none") + Flag(stage.breakouts # "none")
  + Flag(stage.sorts # "none") + Flag(stage.limit)

\* a stage a database can hold: no join or expression the database lacks
Supported(stage, db) ==
  /\ stage.joins # <<>> => hasFeature(db, "join")
  /\ stage.expressions # "none" => supportsExpressions(db)

FirstStages(shape, db, w) ==
  {s \in Stages(shape) : s.table /\ Weight(s) = w /\ Supported(s, db)}

NestedStages(shape, db, w) ==
  {s \in Stages(shape) : ~s.table /\ Weight(s) = w /\ Supported(s, db)}

RECURSIVE StageSeqs(_, _, _, _)
\* the dataset queries of n stages over a table with at most w clauses in all
StageSeqs(shape, db, n, w) ==
  IF n = 1 THEN UNION {{<<s>> : s \in FirstStages(shape, db, v)} : v \in 0..w}
  ELSE UNION {{Append(q, s) : q \in StageSeqs(shape, db, n - 1, w - v),
                              s \in NestedStages(shape, db, v)} : v \in 0..w}

StructuredQuestions(shape, maxClauses) ==
  UNION {
    {[structured |-> TRUE, database |-> db, stages |-> q] :
       q \in UNION {StageSeqs(shape, db, n, maxClauses) :
                      n \in 1..(IF hasFeature(db, "nested-queries") THEN MaxStages ELSE 1)}} :
    db \in Databases \ {NoDatabase}}

\* a new question: no table picked yet, the database possibly not loaded
BlankQuestions ==
  {[structured |-> TRUE, database |-> db, stages |-> <<EmptyStage>>] : db \in Databases}

\* a native question: its query text is not modelled, and read as a structured
\* query its dataset query is one stage without any clause
NativeQuestions ==
  {[structured |-> FALSE, database |-> db, stages |-> <<EmptyStage>>] :
     db \in {NoDatabase, Features}}

InputQuestions(shape, maxClauses) ==
  StructuredQuestions(shape, maxClauses) \cup BlankQuestions \cup NativeQuestions

\* position of a step type in the catalog
RECURSIVE IndexOf(_, _)
IndexOf(type, n) == IF STEPS[n] = type THEN n ELSE IndexOf(type, n + 1)

Spoil(c) == IF c = "none" THEN "none" ELSE "bad"

\* an edit of one step that leaves what the later steps hold unresolved
InvalidateAfter(stage, type, itemIndex) ==
  LET k == IndexOf(type, 1)
      after(t) == IndexOf(t, 1) > k
  IN  [stage EXCEPT
         !.joins = [i \in 1..Len(@) |->
                      IF after("join") \/ (type = "join" /\ i - 1 > itemIndex)
                      THEN "broken" ELSE @[i]],
         !.expressions = IF after("expression") THEN Spoil(@) ELSE @,
         !.filters = IF after("filter") THEN Spoil(@) ELSE @,
         !.aggregations = IF after("summarize") THEN Spoil(@) ELSE @,
         !.breakouts = IF after("summarize") THEN Spoil(@) ELSE @,
         !.sorts = IF after("sort") THEN Spoil(@) ELSE @]

\* the stage after an edit of the step's own clause
OwnEdits(stage, type, itemIndex) ==
  CASE type = "data" -> {[stage EXCEPT !.table = TRUE]}
    [] type = "join" ->
         IF itemIndex < Len(stage.joins)
         THEN {[stage EXCEPT !.joins[itemIndex + 1] = j] : j \in JoinStates}
         ELSE {[stage EXCEPT !.joins = Append(@, j)] : j \in JoinStates}
    [] type = "expression" -> {[stage EXCEPT !.expressions = c] : c \in ClauseStates}
    [] type = "filter" -> {[stage EXCEPT !.filters = c] : c \in ClauseStates}
    [] type = "summarize" ->
         {[stage EXCEPT !.aggregations = c] : c \in ClauseStates}
         \cup {[stage EXCEPT !.breakouts = c] : c \in ClauseStates}
    [] type = "sort" -> {[stage EXCEPT !.sorts = c] : c \in ClauseStates}
    [] type = "limit" -> {[stage EXCEPT !.limit = b] : b \in BOOLEAN}

\* the dataset queries the editor of a step hands to its update
StepEdits(step) ==
  LET own == OwnEdits(Top(step.query), step.type, step.itemIndex)
      all == own \cup {InvalidateAfter(s, step.type, step.itemIndex) : s \in own}
  IN  {[step.query.stages EXCEPT ![Len(step.query.stages)] = s] : s \in all}

\* ------------------------------------------------------------------- state
\* instances: every step instance the last derivation built (the `steps` of
\* getStageSteps before the hidden ones are spliced out), over all stages
VARIABLES question, openSteps, allSteps, instances, updated, reverted

vars == <<question, openSteps, allSteps, instances, updated, reverted>>

NoUpdate == [pos |-> 0, dq |-> <<>>, cleaned |-> <<>>, handOffs |-> <<>>,
             cascaded |-> NullQuery, result |-> NullQuery]
NoRevert == [pos |-> 0, base |-> NullQuery, result |-> NullQuery]

\* the stage a step was derived for (its id keeps the literal index)
StageOf(step) == step.id[1]

RECURSIVE StageInstances(_, _, _, _)
StageInstances(topLevelQuery, stagedQueries, i, opened) ==
  IF i > Len(stagedQueries) THEN <<>>
  ELSE RawSteps(topLevelQuery, stagedQueries[i], i - 1, i = Len(stagedQueries), opened)
       \o StageInstances(topLevelQuery, stagedQueries, i + 1, opened)

\* every step instance one derivation considers, the hidden ones included
Instances(q, opened) ==
  IF q.structured
  THEN StageInstances(getMLv2Query(q), queries(NormalizedQuery(q)), 1, opened)
  ELSE <<>>

\* ids left open by an earlier edit: their step is no longer valid; a question
\* turned native keeps the ids that were open while it was structured
StaleIds(q) ==
  IF q.structured
  THEN LET all == Instances(q, {}) IN {all[i].id : i \in {j \in 1..Len(all) : ~all[j].valid}}
  ELSE {<<0, STEPS[t]>> : t \in 1..Len(STEPS)}

InitWith(questions) ==
  /\ question \in questions
  /\ openSteps \in {{}} \cup {{id} : id \in StaleIds(question)}
  /\ allSteps = getQuestionSteps(question, openSteps)
  /\ instances = Instances(question, openSteps)
  /\ updated = NoUpdate
  /\ reverted = NoRevert

Init == InitWith(InputQuestions(Resolved, MaxClauses))

\* a step's action button: openStep(id), then the notebook derives again
OpenStep(pos, a) ==
  /\ Cardinality(openSteps) < MaxOpen
  /\ allSteps[pos].actions[a].action \notin openSteps
  /\ openSteps' = openSteps \cup {allSteps[pos].actions[a].action}
  /\ allSteps' = getQuestionSteps(question, openSteps')
  /\ instances' = Instances(question, openSteps')
  /\ updated' = NoUpdate
  /\ reverted' = NoRevert
  /\ UNCHANGED question

\* step.revert(query): the steps of one stage are reverted from the last to the
\* first, each returned query being the base of the next revert
Revert(pos) ==
  LET step == allSteps[pos]
      first == reverted.pos = 0
      base == IF first THEN step.query ELSE reverted.result
  IN  /\ StepHasRevert(step.type)
      /\ IF first
         THEN IF pos = Len(allSteps) THEN TRUE
              ELSE StageOf(allSteps[pos + 1]) # StageOf(step)
         ELSE IF pos = reverted.pos - 1
              THEN StageOf(allSteps[reverted.pos]) = StageOf(step)
              ELSE FALSE
      /\ reverted' = [pos |-> pos, base |-> base, result |-> revert(step, base)]
      /\ updated' = NoUpdate
      /\ UNCHANGED <<question, openSteps, allSteps, instances>>

\* step.update(datasetQuery)
Update(pos, dq) ==
  /\ updated.pos = 0
  /\ updated' = [pos |-> pos, dq |-> dq,
                 cleaned |-> Cleaned(allSteps, pos),
                 handOffs |-> HandOffs(allSteps, pos),
                 cascaded |-> Cascade(allSteps, pos, setDatasetQuery(allSteps[pos].query, dq)),
                 result |-> update(allSteps, pos, dq)]
  /\ reverted' = NoRevert
  /\ UNCHANGED <<question, openSteps, allSteps, instances>>

Next ==
  \/ \E pos \in 1..Len(allSteps) : \E a \in 1..Len(allSteps[pos].actions) : OpenStep(pos, a)
  \/ \E pos \in 1..Len(allSteps) : Revert(pos)

Spec == Init /\ [][Next]_vars

\* the update cascade, over questions that hold unresolved clauses

InitUpdate == InitWith(InputQuestions(Unresolved, MaxUpdateClauses))

NextUpdate ==
  \/ \E pos \in 1..Len(allSteps) : \E a \in 1..Len(allSteps[pos].actions) : OpenStep(pos, a)
  \/ \E pos \in 1..Len(allSteps) : \E dq \in StepEdits(allSteps[pos]) : Update(pos, dq)

SpecUpdate == InitUpdate /\ [][NextUpdate]_vars

\* ------------------------------------------------------------------ claims
\* the query K's stage holds once the cascade of updated.pos has run
CascadedAtStep == SubSeq(updated.cascaded.stages, 1, Len(updated.dq))

\* C1: the downstream clean cascade is idempotent: applying the clean of every
\* step after K a second time to what K.update(d) gave changes nothing.
C1_CascadeIdempotent ==
  updated.pos # 0 =>
    Cascade(allSteps, updated.pos,
            setDatasetQuery(allSteps[updated.pos].query, CascadedAtStep))
      = updated.cascaded

\* the last revert of a stage's chain has run
ChainDone ==
  /\ reverted.pos # 0
  /\ IF reverted.pos = 1 THEN TRUE
     ELSE \/ ~StepHasRevert(allSteps[reverted.pos - 1].type)
          \/ StageOf(allSteps[reverted.pos - 1]) # StageOf(allSteps[reverted.pos])

\* the stage of a query with its source data and nothing else
DataOnly(query) == SetTop(query, [EmptyStage EXCEPT !.table = Top(query).table])

\* C2: reverting every visible step of a stage from the last to the first, each
\* result the base of the next, gives the stage's data-only query.
C2_RevertAllGivesDataOnly ==
  ChainDone => reverted.result = DataOnly(allSteps[reverted.pos].query)

\* a single stage over a table without any clause, nothing forced open
DataOnlyQuestion ==
  /\ question.structured
  /\ Len(question.stages) = 1
  /\ question.stages[1].table
  /\ Weight(question.stages[1]) = 0
  /\ openSteps = {}

\* C3 as stated: a data-only single-stage query derives one data step that
\* carries no action.
C3_DataOnlyNoActions ==
  DataOnlyQuestion =>
    /\ Len(allSteps) = 1
    /\ allSteps[1].type = "data"
    /\ allSteps[1].actions = <<>>

\* the step types a data-only stage over a table can add, in catalog order
Addable(db) ==
  SelectSeq(STEPS, LAMBDA t :
    /\ t # "data"
    /\ t = "join" => db # NoDatabase /\ hasFeature(db, "join")
    /\ t = "expression" => db # NoDatabase /\ supportsExpressions(db))

\* C3 amended: a data-only single-stage query derives one data step, and that
\* step carries one action per step type the stage can add, in catalog order;
\* the stage leaves no action unattached.
C3_DataOnlyOneStep ==
  DataOnlyQuestion =>
    /\ getStageSteps(getMLv2Query(question), NormalizedQuery(question), 0, TRUE,
                     openSteps).actions = <<>>
    /\ Len(allSteps) = 1
    /\ allSteps[1].type = "data"
    /\ Len(allSteps[1].actions) = Len(Addable(question.database))
    /\ \A i \in 1..Len(allSteps[1].actions) :
         /\ allSteps[1].actions[i].type = Addable(question.database)[i]
         /\ allSteps[1].actions[i].action = <<0, Addable(question.database)[i]>>

C3_Witness ==
  /\ DataOnlyQuestion
  /\ Len(allSteps) = 1
  /\ Len(allSteps[1].actions) = 6

Returned(id) == \E i \in 1..Len(allSteps) : allSteps[i].id = id

\* C4: visible implies valid: an invalid instance is never visible and never
\* returned, also when it is active or its id is forced open.
C4_VisibleImpliesValid ==
  /\ \A i \in 1..Len(allSteps) : allSteps[i].visible /\ allSteps[i].valid
  /\ \A i \in 1..Len(instances) :
       /\ instances[i].visible => instances[i].valid
       /\ ~instances[i].valid => ~Returned(instances[i].id)

C4_Witness ==
  /\ \E i \in 1..Len(instances) :
       ~instances[i].valid /\ instances[i].id \in openSteps /\ ~Returned(instances[i].id)
  /\ \E i \in 1..Len(instances) :
       ~instances[i].valid /\ instances[i].active /\ ~Returned(instances[i].id)

\* C5: a returned step that is not active (shown because forced open) has no
\* preview query.
C5_InactiveNoPreview ==
  \A i \in 1..Len(allSteps) : ~allSteps[i].active => allSteps[i].previewQuery = NullQuery

C5_Witness ==
  \E i \in 1..Len(allSteps) :
    /\ ~allSteps[i].active
    /\ allSteps[i].id \in openSteps
    /\ allSteps[i].previewQuery = NullQuery
    /\ \E j \in 1..Len(allSteps) : j > i /\ StageOf(allSteps[j]) = StageOf(allSteps[i])

\* the stage of a step, read from the stage query it holds
StageNo(step) == Len(step.query.stages) - 1

\* what a stage reads up to and including one step: the clauses of the later
\* catalog entries (and the later joins) removed, the others kept
KeepThrough(stage, type, itemIndex) ==
  LET k == IndexOf(type, 1)
      kept(t) == IndexOf(t, 1) <= k
  IN  [table |-> stage.table,
       joins |-> IF type = "join" THEN SubSeq(stage.joins, 1, itemIndex + 1)
                 ELSE IF kept("join") THEN stage.joins ELSE <<>>,
       expressions |-> IF kept("expression") THEN stage.expressions ELSE "none",
       filters |-> IF kept("filter") THEN stage.filters ELSE "none",
       aggregations |-> IF kept("summarize") THEN stage.aggregations ELSE "none",
       breakouts |-> IF kept("summarize") THEN stage.breakouts ELSE "none",
       sorts |-> IF kept("sort") THEN stage.sorts ELSE "none",
       limit |-> IF kept("limit") THEN stage.limit ELSE FALSE]

\* C6: the preview query of a visible, active step is its stage query with the
\* clauses of all later steps removed and its own and the earlier ones kept.
C6_PreviewKeepsUpToStep ==
  \A i \in 1..Len(allSteps) :
    allSteps[i].active =>
      allSteps[i].previewQuery =
        SetTop(allSteps[i].query,
               KeepThrough(Top(allSteps[i].query), allSteps[i].type, allSteps[i].itemIndex))

\* the join instances of one stage, in the order they were built
JoinInstances(stage) ==
  SelectSeq(instances, LAMBDA x : x.type = "join" /\ StageNo(x) = stage)

StageNumbers == {StageNo(instances[i]) : i \in 1..Len(instances)}

\* C7: a stage with N joins whose join step is valid has N + 1 join instances,
\* itemIndex 0..N: the first N active and returned, the last one an inactive
\* placeholder that is returned only when its id is forced open.
C7_JoinInstances ==
  \A stage \in StageNumbers :
    \A js \in {JoinInstances(stage)} :
      (js # <<>> /\ js[1].valid) =>
        \A n \in {Len(joins(js[1].query))} :
          /\ Len(js) = n + 1
          /\ \A k \in 1..Len(js) :
               /\ js[k].itemIndex = k - 1
               /\ js[k].active <=> k <= n
               /\ Returned(js[k].id) <=> (k <= n \/ js[k].id \in openSteps)

C7_Witness ==
  \E stage \in StageNumbers :
    \E js \in {JoinInstances(stage)} :
      /\ Len(js) = 3
      /\ js[1].valid
      /\ Len(joins(js[1].query)) = 2
      /\ js[3].itemIndex = 2
      /\ ~js[3].active
      /\ js[3].id \in openSteps
      /\ Returned(js[3].id)

\* the index of the last stage the derivation walks
LastStageNo == Len(NormalizedQuery(question).stages) - 1

\* C8: a sort or limit instance carries stageIndex -1 in the last stage of the
\* normalized query and the literal stage index elsewhere; every other
\* instance carries the literal stage index.
C8_StageIndex ==
  \A i \in 1..Len(instances) :
    instances[i].stageIndex =
      IF instances[i].type \in {"sort", "limit"} /\ StageNo(instances[i]) = LastStageNo
      THEN -1
      ELSE StageNo(instances[i])

C8_Witness ==
  /\ \E i \in 1..Len(allSteps) :
       allSteps[i].type = "sort" /\ StageNo(allSteps[i]) = 0 /\ allSteps[i].stageIndex = 0
  /\ \E i \in 1..Len(allSteps) :
       allSteps[i].type = "limit" /\ StageNo(allSteps[i]) = 1 /\ allSteps[i].stageIndex = -1
  /\ \E i \in 1..Len(allSteps) :
       allSteps[i].type = "filter" /\ StageNo(allSteps[i]) = 1 /\ allSteps[i].stageIndex = 1

\* a step comes before another: earlier stage, then earlier catalog entry,
\* then smaller item index
Before(a, b) ==
  \/ StageNo(a) < StageNo(b)
  \/ /\ StageNo(a) = StageNo(b)
     /\ \/ IndexOf(a.type, 1) < IndexOf(b.type, 1)
        \/ a.type = b.type /\ a.itemIndex < b.itemIndex

Ids(steps) == [i \in 1..Len(steps) |-> steps[i].id]

\* C9: the returned steps are ordered by stage, then catalog order, then item
\* index with the placeholder last, and they are the visible instances in the
\* order the instances were built.
C9_Order ==
  /\ \A i \in 1..(Len(allSteps) - 1) : Before(allSteps[i], allSteps[i + 1])
  /\ Ids(allSteps) = Ids(SelectSeq(instances, LAMBDA x : x.visible))

C9_Witness ==
  /\ Len(allSteps) >= 5
  /\ \E i \in 1..(Len(allSteps) - 2) :
       /\ allSteps[i].type = "join" /\ allSteps[i].itemIndex = 1 /\ allSteps[i].active
       /\ allSteps[i + 1].type = "join" /\ allSteps[i + 1].itemIndex = 2
       /\ ~allSteps[i + 1].active
       /\ StageNo(allSteps[i + 2]) = StageNo(allSteps[i]) + 1
  /\ Len(instances) > Len(allSteps)

\* where a returned step sits among the instances
PosOf(id) == CHOOSE k \in 1..Len(instances) : instances[k].id = id

\* the actions of the hidden, valid instances between two places
ActionsBetween(lo, hi) ==
  LET hidden == SelectSeq([k \in 1..Len(instances) |-> k],
                          LAMBDA k : /\ lo < k /\ k < hi
                                     /\ instances[k].valid
                                     /\ ~instances[k].visible)
  IN  [j \in 1..Len(hidden) |->
         [type |-> instances[hidden[j]].type, action |-> instances[hidden[j]].id]]

\* where the stage of the instance at place p begins
StageStart(p) ==
  CHOOSE k \in 1..p :
    /\ StageNo(instances[k]) = StageNo(instances[p])
    /\ k = 1 \/ StageNo(instances[k - 1]) # StageNo(instances[p])

\* C10 as stated: the actions of a visible step are those of the hidden, valid
\* instances that immediately precede it in its stage.
C10_ActionsOfPreceding ==
  \A i \in 1..Len(allSteps) :
    \A p \in {PosOf(allSteps[i].id)} :
      allSteps[i].actions =
        ActionsBetween(IF i > 1 /\ StageNo(allSteps[i - 1]) = StageNo(allSteps[i])
                       THEN PosOf(allSteps[i - 1].id)
                       ELSE StageStart(p) - 1,
                       p)

\* C10 amended: the actions of a visible step are those of the hidden, valid
\* instances that follow it up to the next visible step, in catalog order, the
\* leading hidden instances of the next stages included.
C10_ActionsOfFollowing ==
  \A i \in 1..Len(allSteps) :
    allSteps[i].actions =
      ActionsBetween(PosOf(allSteps[i].id),
                     IF i < Len(allSteps) THEN PosOf(allSteps[i + 1].id)
                     ELSE Len(instances) + 1)

C10_Witness ==
  \E i \in 1..(Len(allSteps) - 1) :
    /\ StageNo(allSteps[i]) = 0
    /\ StageNo(allSteps[i + 1]) = 1
    /\ Len(allSteps[i].actions) >= 3
    /\ \E a, b \in 1..Len(allSteps[i].actions) :
         /\ a < b
         /\ allSteps[i].actions[a].action[1] = 0
         /\ allSteps[i].actions[b].action[1] = 1
    /\ allSteps[i].actions = ActionsBetween(PosOf(allSteps[i].id), PosOf(allSteps[i + 1].id))

\* the positions reached from the first step by following next
RECURSIVE FollowNext(_, _, _)
FollowNext(steps, pos, fuel) ==
  IF pos = 0 \/ fuel = 0 THEN <<>>
  ELSE <<pos>> \o FollowNext(steps, steps[pos].next, fuel - 1)

\* C11: the returned sequence is one doubly linked chain over all stages: of two
\* adjacent steps the first has the second as next and the second has the first
\* as previous, also across a stage boundary; the first step has no previous,
\* the last no next, and following next from the first visits every step once.
C11_LinkedChain ==
  LET n == Len(allSteps)
  IN  n > 0 =>
        /\ \A i \in 1..(n - 1) : /\ allSteps[i].next = i + 1
                                 /\ allSteps[i + 1].previous = i
        /\ allSteps[1].previous = 0
        /\ allSteps[n].next = 0
        /\ FollowNext(allSteps, 1, n + 1) = [i \in 1..n |-> i]

C11_Witness ==
  /\ Len(allSteps) >= 3
  /\ \E i \in 1..(Len(allSteps) - 1) :
       /\ StageOf(allSteps[i]) < StageOf(allSteps[i + 1])
       /\ allSteps[i].next = i + 1
       /\ allSteps[i + 1].previous = i

\* the catalog entries whose operations read the top-level query at stageIndex
ReadsTopLevelQuery == {"limit"}

\* C12 as stated: the stage index every instance hands to its operations is -1
\* or the index of a stage the top-level query has.
C12_EveryIndexExists ==
  \A i \in 1..Len(instances) :
    LibStageExists(instances[i].topLevelQuery, instances[i].stageIndex)

\* C12 amended: the stage index with which an operation reads the top-level
\* query (the limit step's active and revert) is -1 or the index of a stage the
\* top-level query has, also after cleanNesting removed stages or nest appended
\* one; the other steps of an appended stage carry an index the top-level query
\* does not have, and never read it.
C12_ReadIndexExists ==
  \A i \in 1..Len(instances) :
    instances[i].type \in ReadsTopLevelQuery =>
      LibStageExists(instances[i].topLevelQuery, instances[i].stageIndex)

\* nest appended a stage: its limit instance reads the top-level query at -1
C12_Witness ==
  \E i \in 1..Len(instances) :
    /\ instances[i].type = "limit"
    /\ StageNo(instances[i]) = Len(question.stages)
    /\ instances[i].stageIndex = LastStage
    /\ LibStageExists(instances[i].topLevelQuery, instances[i].stageIndex)

\* C13: a question that is not structured derives the empty sequence, whatever
\* the force-open set: no stage is derived and no instance is built.
C13_NativeNoSteps ==
  ~question.structured => allSteps = <<>> /\ instances = <<>>

C13_Witness ==
  /\ ~question.structured
  /\ openSteps # {}
  /\ allSteps = <<>>

\* C14: in the walk of an update the source is re-pointed at a step exactly
\* when that step is the first returned step of a later stage than the step
\* before it, whatever its type (a sort or limit step of the last stage
\* included), once per stage boundary and never inside a stage.
C14_HandOffAtBoundary ==
  updated.pos # 0 =>
    /\ \A k \in 1..Len(updated.cleaned) :
         LET n == updated.cleaned[k]
         IN  (\E j \in 1..Len(updated.handOffs) : updated.handOffs[j] = n)
               <=> StageOf(allSteps[n - 1]) < StageOf(allSteps[n])
    /\ \A i, j \in 1..Len(updated.handOffs) :
         i # j => updated.handOffs[i] # updated.handOffs[j]

\* C15: update(d) on step K sets K's stage query to d, applies the clean of
\* every step after K once each in sequence order and of no other step, and
\* ends with cleanNesting; so what d holds for K itself and for the steps
\* before K (the earlier stages, the earlier clauses of K's stage and K's own
\* clause, invalid or not) is what the cascade leaves there.
C15_CleansOnlyLaterSteps ==
  updated.pos # 0 =>
    LET K == allSteps[updated.pos]
        n == Len(updated.dq)
    IN  /\ updated.cleaned = [k \in 1..(Len(allSteps) - updated.pos) |-> updated.pos + k]
        /\ updated.result = cleanNesting(updated.cascaded)
        /\ Len(updated.cascaded.stages) >= n
        /\ SubSeq(updated.cascaded.stages, 1, n - 1) = SubSeq(updated.dq, 1, n - 1)
        /\ KeepThrough(updated.cascaded.stages[n], K.type, K.itemIndex)
             = KeepThrough(updated.dq[n], K.type, K.itemIndex)

\* the three states of an instance under a force-open set
HiddenAddable(x, opened) == x.valid /\ ~x.active /\ x.id \notin opened
HiddenUnavailable(x) == ~x.valid
Shown(x, opened) == x.valid /\ (x.active \/ x.id \in opened)

\* C16: every instance is hidden-and-addable, hidden-and-unavailable or shown;
\* the shown instances are the visible ones and exactly they are returned; and
\* against the derivation of the same query with nothing forced open every
\* instance keeps its valid and active, and differs in state only by being
\* shown where it was hidden-and-addable.
C16_ThreeStates ==
  \A base \in {Instances(question, {})} :
    /\ Len(base) = Len(instances)
    /\ Ids(allSteps) = Ids(SelectSeq(instances, LAMBDA x : Shown(x, openSteps)))
    /\ \A i \in 1..Len(instances) :
         LET x == instances[i]
             b == base[i]
         IN  /\ x.visible <=> Shown(x, openSteps)
             /\ ~x.visible <=> (HiddenAddable(x, openSteps) \/ HiddenUnavailable(x))
             /\ b.id = x.id /\ b.valid = x.valid /\ b.active = x.active
             /\ b.visible # x.visible =>
                  HiddenAddable(b, {}) /\ Shown(x, openSteps) /\ ~b.visible /\ x.visible

\* one instance forced open and shown, another one unavailable
C16_Witness ==
  /\ \E i \in 1..Len(instances) :
       /\ instances[i].id \in openSteps
       /\ ~instances[i].active
       /\ instances[i].visible
       /\ Returned(instances[i].id)
  /\ \E j \in 1..Len(instances) : HiddenUnavailable(instances[j])
  /\ \E k \in 1..Len(instances) : HiddenAddable(instances[k], openSteps)

\* the stages left once the empty ones are stripped, and whether one is added
StrippedStages == StripEmpty(question.stages)
NestsOnce ==
  /\ question.database # NoDatabase
  /\ hasFeature(question.database, "nested-queries")
  /\ StrippedStages[Len(StrippedStages)].breakouts # "none"

\* C17: the stages derived are the stripped stages, followed by exactly one new
\* stage without clauses when the database supports nested queries and the top
\* stripped stage has breakouts, and by nothing otherwise: their number is the
\* stripped count or that plus one.
C17_NestOnce ==
  question.structured =>
    LET expected == IF NestsOnce THEN Append(StrippedStages, EmptyStage) ELSE StrippedStages
    IN  /\ StageNumbers = 0..(Len(expected) - 1)
        /\ Len(expected) \in {Len(StrippedStages), Len(StrippedStages) + 1}
        /\ \A i \in 1..Len(instances) :
             instances[i].query.stages = SubSeq(expected, 1, StageNo(instances[i]) + 1)

\* a stage was stripped and a stage was appended in the same derivation
C17_Witness ==
  /\ question.structured
  /\ Len(StrippedStages) < Len(question.stages)
  /\ NestsOnce
  /\ Cardinality(StageNumbers) = Len(StrippedStages) + 1

\* the actions of the first n returned steps, read along the sequence
RECURSIVE ActionsAlong(_, _)
ActionsAlong(steps, n) ==
  IF n = 0 THEN <<>> ELSE ActionsAlong(steps, n - 1) \o steps[n].actions

\* C18: read along the returned sequence, the actions are the hidden-and-addable
\* instances of all stages, each once, in stage order and then catalog order;
\* each sits on the nearest shown step before its instance, of the same stage
\* or the last shown one of an earlier stage; an unavailable instance has none.
C18_ActionsComplete ==
  question.structured =>
    \A along \in {ActionsAlong(allSteps, Len(allSteps))} :
      /\ along = ActionsBetween(0, Len(instances) + 1)
      /\ \A a, b \in 1..Len(along) : a # b => along[a].action # along[b].action
      /\ \A k \in 1..Len(instances) :
           Cardinality({a \in 1..Len(along) : along[a].action = instances[k].id})
             = IF HiddenAddable(instances[k], openSteps) THEN 1 ELSE 0
      /\ \A p \in 1..Len(allSteps) : \A a \in 1..Len(allSteps[p].actions) :
           LET at == PosOf(allSteps[p].actions[a].action)
               from == PosOf(allSteps[p].id)
           IN  /\ from < at
               /\ \A k \in (from + 1)..(at - 1) : ~instances[k].visible

\* addable instances of two stages, one of them leading its stage, and an
\* unavailable instance, in one derivation
C18_Witness ==
  /\ \E p \in 1..Len(allSteps) : \E a \in 1..Len(allSteps[p].actions) :
       /\ StageOf(allSteps[p]) = 0
       /\ allSteps[p].actions[a].action[1] = 1
  /\ \E p \in 1..Len(allSteps) : \E a \in 1..Len(allSteps[p].actions) :
       StageOf(allSteps[p]) = allSteps[p].actions[a].action[1]
  /\ \E k \in 1..Len(instances) :
       HiddenUnavailable(instances[k]) /\ instances[k].type # "data"
  /\ Len(ActionsAlong(allSteps, Len(allSteps))) = Len(ActionsBetween(0, Len(instances) + 1))

\* C19: the limit instance of every derived stage is active exactly when that
\* stage has a limit, and its revert returns that stage with only the limit
\* removed: the stage its stageIndex addresses in the top-level query is the
\* stage its stage query represents.
C19_LimitAddressesOwnStage ==
  \A i \in 1..Len(instances) :
    LET x == instances[i]
    IN  x.type = "limit" =>
          /\ LibStage(x.topLevelQuery, x.stageIndex) = StageNo(x) + 1
          /\ x.active <=> Top(x.query).limit
          /\ revert(x, x.query) = SetTop(x.query, [Top(x.query) EXCEPT !.limit = FALSE])

\* C20: within one derivation all instances, the hidden ones and those of
\* different stages included, have pairwise distinct ids, although item 0 and
\* no item give an id without suffix and the id keeps the literal stage index
\* where stageIndex is -1.
C20_DistinctIds ==
  \A i, j \in 1..Len(instances) : i # j => instances[i].id # instances[j].id

\* two stages, two join instances of one stage (item 0 without suffix, item 1
\* with it), and a sort whose stageIndex is -1 while its id keeps the stage
C20_Witness ==
  /\ \E i, j \in 1..Len(instances) :
       /\ instances[i].type = "join" /\ instances[i].itemIndex = 0
       /\ instances[j].type = "join" /\ instances[j].itemIndex = 1
       /\ StageOf(instances[i]) = StageOf(instances[j])
       /\ Len(instances[i].id) = 2 /\ Len(instances[j].id) = 3
  /\ \E k \in 1..Len(instances) :
       /\ instances[k].type = "sort"
       /\ instances[k].stageIndex = LastStage
       /\ StageOf(instances[k]) = 1
  /\ \E k \in 1..Len(instances) : ~instances[k].visible


====
